---- MODULE Spec2Model ----
(***************************************************************************)
(* A model of the condition compiler (scope_private.go) and the schema     *)
(* reflector (model_struct.go) of gorm.                                    *)
(*                                                                         *)
(* SQL text is a sequence of tokens whose concatenation is the Go string.  *)
(* Parentheses and the placeholder "?" are always tokens of their own;     *)
(* every other chunk of a format string is one token, kept verbatim.  In a *)
(* caller's query string each blank, each digit and each word is a token,  *)
(* which is what the regular expressions of the code look at.              *)
(***************************************************************************)
EXTENDS Integers, Sequences, FiniteSets, TLC

(***************************************************************************)
(* Bounds of the model.                                                    *)
(***************************************************************************)
MaxClauses == 2
MaxArgs == 2
MaxPre == 1

(***************************************************************************)
(* The state of one database handle and one scope derived from it.         *)
(***************************************************************************)
VARIABLES
    phase,      \* where the run stands (each specification names its phases)
    clauses,    \* the heap of clause maps, by address
    dbSearch,   \* the search of the handle, shared with every scope derived
    Search,     \* scope.Search
    Value,      \* scope.Value: its primary key (0: zero) and its deleted_at column
    SqlVars,    \* scope.SqlVars
    Sql,        \* scope.Sql
    where,      \* the last whereSql: its result and its three lists
    err,        \* the scope's error slot
    shared0,    \* the clauses of dbSearch as they were when the scope was derived
    built       \* a single buildWhereCondition or buildNotCondition call: its
                \* name, the clause and bound values it was given, its result

(***************************************************************************)
(* The state of the schema reflector: the handle's cache of descriptors    *)
(* and the threads that call GetModelStruct.                               *)
(***************************************************************************)
VARIABLES
    singularTable,  \* db.parent.singularTable
    ModelStructs,   \* db.parent.ModelStructs: struct type -> address (0: no entry)
    structs,        \* the heap of ModelStruct values, by address
    pc,             \* thread -> its position in GetModelStruct
    call,           \* thread -> the call it is in
    returned,       \* thread -> the call it completed last and what it returned
    first,          \* struct type -> the descriptor first stored for it (0: none)
    writes,         \* struct type -> how many times an entry was written for it
    raced,          \* a cache write overlapped another thread's read or write
    fatal,          \* the runtime stopped the program on such an overlap
    ncalls          \* calls of GetModelStruct started

(***************************************************************************)
(* The state of a migration and of an association lookup.                  *)
(***************************************************************************)
VARIABLES
    tables,     \* the database: table name -> set of its columns, for the
                \* tables that exist
    executed,   \* the statements executed, in order
    migrating,  \* the struct type autoMigrate is called for
    related     \* scope.related: its inputs, the queries issued, the error

(***************************************************************************)
(* The state of single runs of the table namer, of the pagination texts    *)
(* and of GetModelStruct on its own.                                       *)
(***************************************************************************)
VARIABLES
    naming,     \* a type name, in letters, and the table name made of it
    paging,     \* the dialect, Search.Limit and Search.Offset, and the texts
                \* of topSql, limitSql and offsetSql once rendered
    reflected   \* sequential GetModelStruct calls: the last one and its result

condVars == <<phase, clauses, dbSearch, Search, Value, SqlVars, Sql, where, err, shared0, built>>
cacheVars == <<singularTable, ModelStructs, structs, pc, call, returned, first, writes,
               raced, fatal, ncalls>>
otherVars == <<tables, executed, migrating, related>>
singleVars == <<naming, paging, reflected>>
vars == <<condVars, cacheVars, otherVars, singleVars>>

(***************************************************************************)
(* Text helpers: strings.Join, strings.Replace(s, "?", new, 1).            *)
(***************************************************************************)
RECURSIVE Join(_, _)
Join(parts, sep) ==
    IF Len(parts) = 0 THEN <<>>
    ELSE IF Len(parts) = 1 THEN parts[1]
    ELSE parts[1] \o sep \o Join(Tail(parts), sep)

Index(s, tok) ==
    IF \E i \in 1..Len(s) : s[i] = tok
    THEN CHOOSE i \in 1..Len(s) : s[i] = tok /\ \A j \in 1..(i - 1) : s[j] # tok
    ELSE 0

ReplaceLast(s, new) ==
    IF \E i \in 1..Len(s) : s[i] = "?"
    THEN LET i == CHOOSE k \in 1..Len(s) : s[k] = "?" /\ \A j \in (k + 1)..Len(s) : s[j] # "?"
         IN SubSeq(s, 1, i - 1) \o new \o SubSeq(s, i + 1, Len(s))
    ELSE s

\* strings.Replace(s, "?", new, 1): the first placeholder, if any, becomes new.
Replace(s, new) ==
    LET i == Index(s, "?")
    IN IF i = 0 THEN s ELSE SubSeq(s, 1, i - 1) \o new \o SubSeq(s, i + 1, Len(s))

\* the Go string a token sequence stands for
RECURSIVE StrOf(_)
StrOf(s) == IF Len(s) = 0 THEN "" ELSE s[1] \o StrOf(Tail(s))

Count(s, tok) == Cardinality({i \in 1..Len(s) : s[i] = tok})

(***************************************************************************)
(* Collaborators: the dialect's quoting and bound-value marker.  A marker  *)
(* names the position of its value in the bound-value list and is never    *)
(* the placeholder "?".                                                    *)
(***************************************************************************)
Quote(name) == "\"" \o name \o "\""
BinVar(i) == "$" \o ToString(i)
PrimaryKey == "id"
TableName == "users"
QuotedTableName == Quote(TableName)

\* scope.AddToVars: append the value, return the marker of its position.
AddToVars(vars_, value) ==
    [vars |-> Append(vars_, value), mark |-> BinVar(Len(vars_) + 1)]

(***************************************************************************)
(* Values of clause["query"] and of the elements of clause["args"].        *)
(***************************************************************************)
StringQ(s)  == [kind |-> "string", str |-> s, val |-> 0, elems |-> <<>>, pairs |-> <<>>]
IntQ(n)     == [kind |-> "int", str |-> <<>>, val |-> n, elems |-> <<>>, pairs |-> <<>>]
SliceQ(es)  == [kind |-> "slice", str |-> <<>>, val |-> 0, elems |-> es, pairs |-> <<>>]
\* a map, as the pairs in the order its range statement visits them
MapQ(ps)    == [kind |-> "map", str |-> <<>>, val |-> 0, elems |-> <<>>, pairs |-> ps]
\* a struct value, as its fields in declaration order
StructQ(ps) == [kind |-> "struct", str |-> <<>>, val |-> 0, elems |-> <<>>, pairs |-> ps]
Pair(k, v, b) == [key |-> k, val |-> v, IsBlank |-> b]

ScalarArg(v) == [kind |-> "scalar", val |-> v, elems |-> <<>>]
SliceArg(es) == [kind |-> "slice", val |-> 0, elems |-> es]
\* a driver.Valuer whose Value() is v
ValuerArg(v) == [kind |-> "valuer", val |-> v, elems |-> <<>>]

Digits == {"0", "1", "2", "3", "4", "5", "6", "7", "8", "9"}
Blanks == {" ", "\t"}
Operators == {"=", "<>", ">", "<", "LIKE", "like", "IS", "is"}

DigitValue(d) ==
    CASE d = "0" -> 0 [] d = "1" -> 1 [] d = "2" -> 2 [] d = "3" -> 3 [] d = "4" -> 4
      [] d = "5" -> 5 [] d = "6" -> 6 [] d = "7" -> 7 [] d = "8" -> 8 [] d = "9" -> 9

\* regexp "^\s*\d+\s*$"
IsNumber(s) ==
    \E i, j \in 1..Len(s) :
        /\ i <= j
        /\ \A k \in 1..Len(s) :
              IF k < i \/ k > j THEN s[k] \in Blanks ELSE s[k] \in Digits

\* regexp "(?i) (=|<>|>|<|LIKE|IS) "
HasOperator(s) ==
    \E i \in 1..(Len(s) - 2) : s[i] = " " /\ s[i + 1] \in Operators /\ s[i + 2] = " "

RECURSIVE Decimal(_)
Decimal(s) == IF Len(s) = 0 THEN 0 ELSE 10 * Decimal(SubSeq(s, 1, Len(s) - 1)) + DigitValue(s[Len(s)])

\* strconv.Atoi with its error dropped: 0 unless the whole string is digits
\* (the strings of the model are too short to overflow an int).
Atoi(s) == IF Len(s) > 0 /\ \A k \in 1..Len(s) : s[k] \in Digits THEN Decimal(s) ELSE 0

(***************************************************************************)
(* The argument loops of buildWhereCondition and buildNotCondition.        *)
(***************************************************************************)
\* the inner loop over a slice argument: bind every element, collect the markers
RECURSIVE tempMarks(_, _, _)
tempMarks(vars_, values, i) ==
    IF i > Len(values) THEN [vars |-> vars_, marks |-> <<>>]
    ELSE LET a == AddToVars(vars_, values[i])
             r == tempMarks(a.vars, values, i + 1)
         IN [vars |-> r.vars, marks |-> <<<<a.mark>>>> \o r.marks]

\* the value bound for a non-slice argument: a driver.Valuer binds its Value()
Bound(arg) == arg.val

\* lines 49-67: every argument replaces the first placeholder left in str
RECURSIVE whereArgs(_, _, _, _)
whereArgs(str, vars_, args, i) ==
    IF i > Len(args) THEN [str |-> str, vars |-> vars_]
    ELSE IF args[i].kind = "slice"
         THEN LET t == tempMarks(vars_, args[i].elems, 1)
              IN whereArgs(Replace(str, Join(t.marks, <<",">>)), t.vars, args, i + 1)
         ELSE LET a == AddToVars(vars_, Bound(args[i]))
              IN whereArgs(Replace(str, <<a.mark>>), a.vars, args, i + 1)

\* lines 111-128: a slice argument replaces in str, any other argument
\* replaces in notEqualSql and the result overwrites str
RECURSIVE notArgs(_, _, _, _, _)
notArgs(str, notEqualSql, vars_, args, i) ==
    IF i > Len(args) THEN [str |-> str, vars |-> vars_]
    ELSE IF args[i].kind = "slice"
         THEN LET t == tempMarks(vars_, args[i].elems, 1)
              IN notArgs(Replace(str, Join(t.marks, <<",">>)), notEqualSql, t.vars, args, i + 1)
         ELSE LET a == AddToVars(vars_, Bound(args[i]))
              IN notArgs(Replace(notEqualSql, <<a.mark>>), notEqualSql, a.vars, args, i + 1)

\* the map and struct cases: one condition per pair that is not blank, each
\* value bound as its condition is written
RECURSIVE fieldSqls(_, _, _, _)
fieldSqls(pairs, op, vars_, i) ==
    IF i > Len(pairs) THEN [sqls |-> <<>>, vars |-> vars_]
    ELSE IF pairs[i].IsBlank THEN fieldSqls(pairs, op, vars_, i + 1)
    ELSE LET a == AddToVars(vars_, pairs[i].val)
             r == fieldSqls(pairs, op, a.vars, i + 1)
         IN [sqls |-> <<<<"(", Quote(pairs[i].key), op, a.mark, ")">>>> \o r.sqls,
             vars |-> r.vars]

primaryCondition(value) == <<"(", Quote(PrimaryKey), " = ", value, ")">>

(***************************************************************************)
(* buildWhereCondition(clause) on a scope whose bound values are vars_:    *)
(* the text returned, the bound values afterwards and clause["args"]       *)
(* afterwards (the clause is a map, written in place).                     *)
(***************************************************************************)
buildWhereCondition(clause, vars_) ==
    LET value == clause.query
    IN CASE value.kind = "string" /\ IsNumber(value.str) ->
              LET a == AddToVars(vars_, Atoi(value.str))
              IN [str |-> primaryCondition(a.mark), vars |-> a.vars, args |-> clause.args]
         [] value.kind = "string" /\ ~IsNumber(value.str) ->
              LET str == IF value.str # <<>> THEN <<"(">> \o value.str \o <<")">> ELSE <<>>
                  replaced(r) == [str |-> r.str, vars |-> r.vars, args |-> clause.args]
              IN replaced(whereArgs(str, vars_, clause.args, 1))
         [] value.kind = "int" ->
              LET a == AddToVars(vars_, value.val)
              IN [str |-> primaryCondition(a.mark), vars |-> a.vars, args |-> clause.args]
         [] value.kind = "slice" ->
              LET str == <<"(", Quote(PrimaryKey), " in ", "(", "?", ")", ")">>
                  args == <<SliceArg(value.elems)>>
                  replaced(r) == [str |-> r.str, vars |-> r.vars, args |-> args]
              IN replaced(whereArgs(str, vars_, args, 1))
         [] value.kind \in {"map", "struct"} ->
              LET joined(r) ==
                      [str |-> Join(r.sqls, <<" AND ">>), vars |-> r.vars, args |-> clause.args]
              IN joined(fieldSqls(value.pairs, " = ", vars_, 1))

(***************************************************************************)
(* buildNotCondition(clause), likewise.                                    *)
(***************************************************************************)
buildNotCondition(clause, vars_) ==
    LET value == clause.query
    IN CASE value.kind = "string" /\ IsNumber(value.str) ->
              [str |-> <<"(", Quote(PrimaryKey), " <> ", ToString(Atoi(value.str)), ")">>,
               vars |-> vars_, args |-> clause.args]
         [] value.kind = "string" /\ ~IsNumber(value.str) /\ HasOperator(value.str) ->
              LET str == <<" NOT ", "(">> \o value.str \o <<")", " ">>
                  notEqualSql == <<"NOT ", "(">> \o value.str \o <<")">>
                  replaced(r) == [str |-> r.str, vars |-> r.vars, args |-> clause.args]
              IN replaced(notArgs(str, notEqualSql, vars_, clause.args, 1))
         [] value.kind = "string" /\ ~IsNumber(value.str) /\ ~HasOperator(value.str) ->
              LET str == <<"(", Quote(StrOf(value.str)), " NOT IN ", "(", "?", ")", ")">>
                  notEqualSql == <<"(", Quote(StrOf(value.str)), " <> ", "?", ")">>
                  replaced(r) == [str |-> r.str, vars |-> r.vars, args |-> clause.args]
              IN replaced(notArgs(str, notEqualSql, vars_, clause.args, 1))
         [] value.kind = "int" ->
              [str |-> <<"(", Quote(PrimaryKey), " <> ", ToString(value.val), ")">>,
               vars |-> vars_, args |-> clause.args]
         [] value.kind = "slice" ->
              \* line 94 returns "" whether or not lines 91-92 ran
              [str |-> <<>>, vars |-> vars_,
               args |-> IF Len(value.elems) > 0 THEN <<SliceArg(value.elems)>> ELSE clause.args]
         [] value.kind \in {"map", "struct"} ->
              LET joined(r) ==
                      [str |-> Join(r.sqls, <<" AND ">>), vars |-> r.vars, args |-> clause.args]
              IN joined(fieldSqls(value.pairs, " <> ", vars_, 1))

(***************************************************************************)
(* whereSql.  Clauses live in a heap of maps (clauses), a search holds     *)
(* their addresses; a clause compiled is a clause possibly written.        *)
(***************************************************************************)
\* the loops of lines 171-187 over one clause list
RECURSIVE conditions(_, _, _, _, _)
conditions(ids, isNot, heap, vars_, i) ==
    IF i > Len(ids) THEN [sqls |-> <<>>, vars |-> vars_, heap |-> heap]
    ELSE LET prepend(r, rest) ==
                 [sqls |-> (IF r.str # <<>> THEN <<r.str>> ELSE <<>>) \o rest.sqls,
                  vars |-> rest.vars, heap |-> rest.heap]
             compiled(r) ==
                 prepend(r, conditions(ids, isNot, [heap EXCEPT ![ids[i]].args = r.args],
                                       r.vars, i + 1))
         IN compiled(IF isNot THEN buildNotCondition(heap[ids[i]], vars_)
                     ELSE buildWhereCondition(heap[ids[i]], vars_))

softDelete ==
    <<"(", QuotedTableName, ".deleted_at IS NULL OR ", QuotedTableName,
      ".deleted_at <= '0001-01-02'", ")">>

\* lines 189-207: the text from the three lists of conditions
assemble(primaryConditions, andConditions, orConditions) ==
    LET orSql == Join(orConditions, <<" OR ">>)
        andSql == Join(andConditions, <<" AND ">>)
        combinedSql == IF Len(andSql) > 0
                       THEN (IF Len(orSql) > 0 THEN andSql \o <<" OR ">> \o orSql ELSE andSql)
                       ELSE orSql
    IN IF Len(primaryConditions) > 0
       THEN <<"WHERE ">> \o Join(primaryConditions, <<" AND ">>)
              \o (IF Len(combinedSql) > 0
                  THEN <<" AND ", "(">> \o combinedSql \o <<")">> ELSE <<>>)
       ELSE IF Len(combinedSql) > 0 THEN <<"WHERE ">> \o combinedSql ELSE <<>>

whereSql(search, heap, value, vars_) ==
    LET soft == IF ~search.Unscope /\ value.hasDeletedAt THEN <<softDelete>> ELSE <<>>
        \* lines 189-207, and what the scope and the clauses have become
        result(primaryConditions, andConditions, orConditions, n) ==
            [sql |-> assemble(primaryConditions, andConditions, orConditions),
             vars |-> n.vars, heap |-> n.heap,
             primaryConditions |-> primaryConditions,
             andConditions |-> andConditions,
             orConditions |-> orConditions]
        \* lines 183-187
        nots(pk, w, o, n) ==
            result(soft \o (IF value.pk # 0 THEN <<primaryCondition(pk.mark)>> ELSE <<>>),
                   w.sqls \o n.sqls, o.sqls, n)
        \* lines 177-181
        ors(pk, w, o) == nots(pk, w, o, conditions(search.NotConditions, TRUE, o.heap, o.vars, 1))
        \* lines 171-175
        wheres(pk, w) == ors(pk, w, conditions(search.OrConditions, FALSE, w.heap, w.vars, 1))
        \* lines 167-169
        primary(pk) == wheres(pk, conditions(search.WhereConditions, FALSE, heap, pk.vars, 1))
    IN primary(IF value.pk # 0 THEN AddToVars(vars_, value.pk)
               ELSE [vars |-> vars_, mark |-> ""])

(***************************************************************************)
(* Searches, the clauses chained on them, and scopes.                      *)
(***************************************************************************)
emptySearch ==
    [WhereConditions |-> <<>>, OrConditions |-> <<>>, NotConditions |-> <<>>,
     Selects |-> <<>>, Unscope |-> FALSE]
noWhere ==
    [sql |-> <<>>, primaryConditions |-> <<>>, andConditions |-> <<>>,
     orConditions |-> <<>>, rendered |-> FALSE]

Clause(q, a) == [query |-> q, args |-> a]

\* the clauses a caller chains on the handle or passes inline
SearchClauses ==
    { Clause(StringQ(<<"a", " ", "=", " ", "?">>), <<ScalarArg(7)>>),
      Clause(StringQ(<<"name">>), <<ScalarArg(6)>>),
      Clause(SliceQ(<<1, 2>>), <<>>),
      Clause(SliceQ(<<>>), <<>>),
      Clause(MapQ(<<>>), <<>>) }

Values == [pk : {0, 4}, hasDeletedAt : BOOLEAN]

Size(search) ==
    Len(search.WhereConditions) + Len(search.OrConditions) + Len(search.NotConditions)

(***************************************************************************)
(* search.clone() followed by where/or/not/selects/unscoped: a new search  *)
(* holding the same clause addresses and one more.                         *)
(***************************************************************************)
clone(search) == search
searchWhere(search, id) == [clone(search) EXCEPT !.WhereConditions = Append(@, id)]
searchOr(search, id) == [clone(search) EXCEPT !.OrConditions = Append(@, id)]
searchNot(search, id) == [clone(search) EXCEPT !.NotConditions = Append(@, id)]
selects(search, column) == [clone(search) EXCEPT !.Selects = Append(@, column)]

CondInit ==
    /\ phase = "chain"
    /\ clauses = <<>>
    /\ dbSearch = emptySearch
    /\ Search = emptySearch
    /\ Value = [pk |-> 0, hasDeletedAt |-> FALSE]
    /\ SqlVars = <<>>
    /\ Sql = <<>>
    /\ where = noWhere
    /\ err = ""
    /\ shared0 = <<>>

\* db.Where(query, args...)
DBWhere(c) ==
    /\ phase = "chain" /\ Size(dbSearch) < MaxClauses
    /\ clauses' = Append(clauses, c)
    /\ dbSearch' = searchWhere(dbSearch, Len(clauses) + 1)
    /\ UNCHANGED <<phase, Search, Value, SqlVars, Sql, where, err, shared0, built, cacheVars, otherVars,
                   singleVars>>

\* db.Or(query, args...)
DBOr(c) ==
    /\ phase = "chain" /\ Size(dbSearch) < MaxClauses
    /\ clauses' = Append(clauses, c)
    /\ dbSearch' = searchOr(dbSearch, Len(clauses) + 1)
    /\ UNCHANGED <<phase, Search, Value, SqlVars, Sql, where, err, shared0, built, cacheVars, otherVars,
                   singleVars>>

\* db.Not(query, args...)
DBNot(c) ==
    /\ phase = "chain" /\ Size(dbSearch) < MaxClauses
    /\ clauses' = Append(clauses, c)
    /\ dbSearch' = searchNot(dbSearch, Len(clauses) + 1)
    /\ UNCHANGED <<phase, Search, Value, SqlVars, Sql, where, err, shared0, built, cacheVars, otherVars,
                   singleVars>>

\* db.Unscoped()
DBUnscoped ==
    /\ phase = "chain" /\ ~dbSearch.Unscope
    /\ dbSearch' = [clone(dbSearch) EXCEPT !.Unscope = TRUE]
    /\ UNCHANGED <<phase, clauses, Search, Value, SqlVars, Sql, where, err, shared0, built, cacheVars, otherVars,
                   singleVars>>

\* db.NewScope(value): the scope starts on the handle's own search
NewScope(v) ==
    /\ phase = "chain"
    /\ phase' = "scope"
    /\ Search' = dbSearch
    /\ Value' = v
    /\ SqlVars' = <<>>
    /\ shared0' = clauses
    /\ UNCHANGED <<clauses, dbSearch, Sql, where, err, built, cacheVars, otherVars, singleVars>>

\* scope.inlineCondition(values...), lines 295-300, with len(values) > 0
inlineCondition(c) ==
    /\ phase = "scope" /\ Search = dbSearch /\ Size(Search) < MaxClauses
    /\ clauses' = Append(clauses, c)
    /\ Search' = searchWhere(Search, Len(clauses) + 1)
    /\ UNCHANGED <<phase, dbSearch, Value, SqlVars, Sql, where, err, shared0, built, cacheVars, otherVars,
                   singleVars>>

\* scope.whereSql()
WhereSql ==
    /\ phase = "scope"
    /\ \E r \in {whereSql(Search, clauses, Value, SqlVars)} :
          /\ where' = [sql |-> r.sql, primaryConditions |-> r.primaryConditions,
                       andConditions |-> r.andConditions,
                       orConditions |-> r.orConditions, rendered |-> TRUE]
          /\ SqlVars' = r.vars
          /\ clauses' = r.heap
    /\ phase' = "done"
    /\ UNCHANGED <<dbSearch, Search, Value, Sql, err, shared0, built, cacheVars, otherVars,
                   singleVars>>

\* buildSelectQuery for a string column without arguments, and selectSql
selectSql(search) ==
    IF Len(search.Selects) = 0 THEN <<"*">>
    ELSE Join([i \in 1..Len(search.Selects) |-> <<search.Selects[i]>>], <<", ">>)

\* prepareQuerySql with Search.Raw unset; the scope's search sets neither
\* joins, group, having, order, limit nor offset, so that the combined
\* condition text is joinsSql() followed by whereSql()
prepareQuerySql(search, heap, value, vars_) ==
    LET combined(r) ==
            [Sql |-> <<"SELECT ", "", " ">> \o selectSql(search)
                       \o <<" FROM ", QuotedTableName, " ", " ">> \o r.sql,
             where |-> r]
    IN combined(whereSql(search, heap, value, vars_))

\* scope.rows() and scope.row(): prepareQuerySql, then the executor
Query(search) ==
    \E p \in {prepareQuerySql(search, clauses, Value, SqlVars)} :
       /\ Sql' = p.Sql
       /\ where' = [sql |-> p.where.sql,
                    primaryConditions |-> p.where.primaryConditions,
                    andConditions |-> p.where.andConditions,
                    orConditions |-> p.where.orConditions, rendered |-> TRUE]
       /\ SqlVars' = p.where.vars
       /\ clauses' = p.where.heap

\* scope.pluck(column, value): value is a slice or it is not
pluck(destIsSlice) ==
    /\ phase = "scope"
    /\ Search' = selects(Search, "name")
    /\ IF destIsSlice
       THEN Query(Search') /\ err' = err
       ELSE /\ err' = "results should be a slice"
            /\ UNCHANGED <<clauses, SqlVars, Sql, where>>
    /\ phase' = "done"
    /\ UNCHANGED <<dbSearch, Value, shared0, built, cacheVars, otherVars, singleVars>>

\* scope.count(value)
count ==
    /\ phase = "scope"
    /\ Search' = selects(Search, "count(*)")
    /\ Query(Search')
    /\ phase' = "done"
    /\ UNCHANGED <<dbSearch, Value, err, shared0, built, cacheVars, otherVars, singleVars>>

CondNext ==
    \/ \E c \in SearchClauses : DBWhere(c)
    \/ \E c \in SearchClauses : DBOr(c)
    \/ \E c \in SearchClauses : DBNot(c)
    \/ DBUnscoped
    \/ \E v \in Values : NewScope(v)
    \/ \E c \in SearchClauses : inlineCondition(c)
    \/ WhereSql
    \/ \E b \in BOOLEAN : pluck(b)
    \/ count

(***************************************************************************)
(* buildWhereCondition and buildNotCondition called on one clause, on a    *)
(* scope that may already hold bound values.                               *)
(***************************************************************************)
noBuilt == [op |-> "", str |-> <<>>, clause |-> Clause(IntQ(0), <<>>), vars |-> <<>>]

RECURSIVE SeqsUpTo(_, _)
SeqsUpTo(S, n) ==
    IF n = 0 THEN {<<>>}
    ELSE LET shorter == SeqsUpTo(S, n - 1)
         IN shorter \cup {Append(q, x) : q \in shorter, x \in S}

ArgSamples == {ScalarArg(7), ValuerArg(6), SliceArg(<<8, 9>>), SliceArg(<<>>)}

cond1 == <<"a", " ", "=", " ", "?">>
cond2 == <<"b", " ", "in", " ", "(", "?", ")">>
cond3 == <<"c", " ", "<>", " ", "?">>
and == <<" ", "AND", " ">>

QueryStrings ==
    { <<>>, <<"name">>, cond1, cond2, cond1 \o and \o cond2, cond2 \o and \o cond1,
      cond1 \o and \o cond3, cond1 \o and \o cond2 \o and \o cond3 }

NumberStrings == { <<"5">>, <<"4", "2">>, <<" ", "5">>, <<"5", " ">>, <<"0", "7">> }

BuildClauses ==
    {Clause(StringQ(q), a) : q \in QueryStrings, a \in SeqsUpTo(ArgSamples, MaxArgs)}
    \cup {Clause(StringQ(q), a) : q \in NumberStrings, a \in {<<>>, <<ScalarArg(7)>>}}
    \cup {Clause(q, a) :
            q \in { IntQ(3), SliceQ(<<1, 2>>), SliceQ(<<>>), MapQ(<<>>),
                    MapQ(<<Pair("age", 30, FALSE), Pair("name", 31, FALSE)>>),
                    MapQ(<<Pair("name", 31, FALSE), Pair("age", 30, FALSE)>>),
                    StructQ(<<Pair("name", 31, FALSE), Pair("age", 0, TRUE),
                              Pair("role", 32, FALSE)>>) },
            a \in {<<>>, <<ScalarArg(7)>>}}

BuildInit ==
    /\ phase = "call"
    /\ clauses \in {<<c>> : c \in BuildClauses}
    /\ SqlVars \in {[i \in 1..n |-> 90 + i] : n \in 0..MaxPre}
    /\ built = noBuilt
    /\ dbSearch = emptySearch /\ Search = emptySearch
    /\ Value = [pk |-> 0, hasDeletedAt |-> FALSE]
    /\ Sql = <<>> /\ where = noWhere /\ err = "" /\ shared0 = <<>>

\* scope.buildWhereCondition(clause)
BuildWhereCondition ==
    /\ phase = "call"
    /\ \E r \in {buildWhereCondition(clauses[1], SqlVars)} :
          /\ built' = [op |-> "where", str |-> r.str, clause |-> clauses[1], vars |-> SqlVars]
          /\ SqlVars' = r.vars
          /\ clauses' = [clauses EXCEPT ![1].args = r.args]
    /\ phase' = "returned"
    /\ UNCHANGED <<dbSearch, Search, Value, Sql, where, err, shared0, cacheVars, otherVars,
                   singleVars>>

\* scope.buildNotCondition(clause)
BuildNotCondition ==
    /\ phase = "call"
    /\ \E r \in {buildNotCondition(clauses[1], SqlVars)} :
          /\ built' = [op |-> "not", str |-> r.str, clause |-> clauses[1], vars |-> SqlVars]
          /\ SqlVars' = r.vars
          /\ clauses' = [clauses EXCEPT ![1].args = r.args]
    /\ phase' = "returned"
    /\ UNCHANGED <<dbSearch, Search, Value, Sql, where, err, shared0, cacheVars, otherVars,
                   singleVars>>

BuildNext == BuildWhereCondition \/ BuildNotCondition

(***************************************************************************)
(* Claims about the condition compiler.                                    *)
(***************************************************************************)
IsMarker(tok) == \E k \in 1..Len(SqlVars) : tok = BinVar(k)
MarkersOf(text) == SelectSeq(text, IsMarker)
MarkersFrom(n, m) == [k \in 1..m |-> BinVar(n + k)]
EmptyParens(text) == \E i \in 1..(Len(text) - 1) : text[i] = "(" /\ text[i + 1] = ")"
Holes(c) == Count(c.query.str, "?")
IsFragment(c) == c.query.kind = "string" /\ ~IsNumber(c.query.str) /\ c.query.str # <<>>

\* the values an argument list binds, in order
RECURSIVE BoundBy(_)
BoundBy(args) ==
    IF Len(args) = 0 THEN <<>>
    ELSE (IF args[1].kind = "slice" THEN args[1].elems ELSE <<args[1].val>>) \o BoundBy(Tail(args))

\* one pass over a fragment, left to right: the k-th placeholder becomes the
\* markers of the k-th argument, numbered from n + 1 on
RECURSIVE Substituted(_, _, _)
Substituted(s, args, n) ==
    IF Len(s) = 0 THEN <<>>
    ELSE IF s[1] = "?" /\ Len(args) > 0
         THEN LET m == IF args[1].kind = "slice" THEN Len(args[1].elems) ELSE 1
              IN Join([k \in 1..m |-> <<BinVar(n + k)>>], <<",">>)
                   \o Substituted(Tail(s), Tail(args), n + m)
         ELSE <<s[1]>> \o Substituted(Tail(s), args, n)

\* every string where- or or-clause of the search has one argument per placeholder
WellFormed(search) ==
    \A i \in 1..Len(search.WhereConditions \o search.OrConditions) :
        LET c == clauses[(search.WhereConditions \o search.OrConditions)[i]]
        IN IsFragment(c) => Holes(c) = Len(c.args)

\* C1: after whereSql has rendered a search, the markers of the WHERE text,
\* read left to right, are the markers of the bound values 1, 2, ... in
\* order, one marker for each bound value.
C1_MarkersFollowBoundValues ==
    (where.rendered /\ WellFormed(Search))
        => MarkersOf(where.sql) = MarkersFrom(0, Len(SqlVars))

Negated(body) ==
    { <<"NOT ", "(">> \o body \o <<")">>, <<" NOT ", "(">> \o body \o <<")", " ">> }
Scalars(args) == \A i \in 1..Len(args) : args[i].kind # "slice"

\* C13: buildNotCondition on a string with a comparison operator and N
\* placeholders, given N scalar arguments, returns the fragment wrapped in
\* NOT (...) with the k-th placeholder replaced by the marker of the k-th
\* argument and no placeholder left, and binds exactly those N values in order.
C13_NotPlaceholdersConsumeArguments ==
    (/\ built.op = "not" /\ IsFragment(built.clause) /\ HasOperator(built.clause.query.str)
     /\ Holes(built.clause) = Len(built.clause.args) /\ Scalars(built.clause.args))
        => /\ built.str \in Negated(Substituted(built.clause.query.str, built.clause.args,
                                                Len(built.vars)))
           /\ Count(built.str, "?") = 0
           /\ SqlVars = built.vars \o BoundBy(built.clause.args)

\* C3: no operation on the derived scope changes a clause of the search it
\* was derived from: the query and the arguments of every clause of dbSearch
\* stay as they were when the scope was derived.
C3_SharedSearchUnchanged ==
    phase \in {"scope", "done"}
        => \A i \in 1..Len(shared0) : clauses[i] = shared0[i]

\* C7: buildNotCondition on a non-empty slice returns the primary key's
\* NOT IN condition with one marker per element and binds the elements in order.
C7_NotSliceRendersNotIn ==
    (built.op = "not" /\ built.clause.query.kind = "slice" /\ Len(built.clause.query.elems) > 0)
        => /\ built.str = <<"(", Quote(PrimaryKey), " NOT IN ", "(">>
                            \o Join([k \in 1..Len(built.clause.query.elems) |->
                                        <<BinVar(Len(built.vars) + k)>>], <<",">>)
                            \o <<")", ")">>
           /\ SqlVars = built.vars \o built.clause.query.elems

\* the value the digits of a numeric-looking string denote
DigitsOf(s) == Decimal(SelectSeq(s, LAMBDA t : t \in Digits))

\* C9: buildWhereCondition on a numeric-looking string returns the primary
\* key equality on one marker and binds the integer the digits denote.
C9_NumberStringBindsItsValue ==
    (built.op = "where" /\ built.clause.query.kind = "string" /\ IsNumber(built.clause.query.str))
        => /\ built.str = <<"(", Quote(PrimaryKey), " = ", BinVar(Len(built.vars) + 1), ")">>
           /\ SqlVars = Append(built.vars, DigitsOf(built.clause.query.str))

\* the components of the WHERE text, as the claim lists them
SoftDeletePresent == Value.hasDeletedAt /\ ~Search.Unscope
PrimaryKeyPresent == Value.pk # 0
CompilesEmpty(id, isNot) ==
    IF isNot THEN buildNotCondition(clauses[id], <<>>).str = <<>>
    ELSE buildWhereCondition(clauses[id], <<>>).str = <<>>
Kept(ids, isNot) == Cardinality({i \in 1..Len(ids) : ~CompilesEmpty(ids[i], isNot)})
Group ==
    Join(where.andConditions, <<" AND ">>)
      \o (IF Len(where.andConditions) > 0 /\ Len(where.orConditions) > 0 THEN <<" OR ">> ELSE <<>>)
      \o Join(where.orConditions, <<" OR ">>)
Components ==
    (IF SoftDeletePresent THEN <<softDelete>> ELSE <<>>)
      \o (IF PrimaryKeyPresent THEN <<<<"(", Quote(PrimaryKey), " = ", BinVar(1), ")">>>> ELSE <<>>)
      \o (IF Group = <<>> THEN <<>>
          ELSE IF SoftDeletePresent \/ PrimaryKeyPresent THEN << <<"(">> \o Group \o <<")">> >>
          ELSE <<Group>>)
Assembled ==
    /\ Len(where.andConditions) = Kept(Search.WhereConditions, FALSE) + Kept(Search.NotConditions, TRUE)
    /\ Len(where.orConditions) = Kept(Search.OrConditions, FALSE)
    /\ \A i \in 1..Len(where.andConditions) : where.andConditions[i] # <<>>
    /\ \A i \in 1..Len(where.orConditions) : where.orConditions[i] # <<>>
    /\ where.sql = IF Components = <<>> THEN <<>>
                   ELSE <<"WHERE ">> \o Join(Components, <<" AND ">>)

\* The assembly of C8 without its last clause: the WHERE text is the soft-delete filter (when the type has
\* deleted_at and the search is not unscoped), the primary key equality (when
\* the primary key is not zero) and the group of the AND-clauses, not-clauses
\* among them, followed by OR and the OR-clauses, in this order and joined by
\* AND; what compiles to nothing is left out, nothing present gives the empty
\* text, and an empty pair of parentheses appears only inside a clause's own
\* text.
C8_WhereAssembly ==
    where.rendered
        => /\ Assembled
           /\ EmptyParens(where.sql)
                => \E i \in 1..Len(where.andConditions \o where.orConditions) :
                      EmptyParens((where.andConditions \o where.orConditions)[i])

\* C8: the WHERE text is assembled as above, and it never holds an empty
\* pair of parentheses.
C8_NeverEmptyParens ==
    where.rendered => (Assembled /\ ~EmptyParens(where.sql))

(***************************************************************************)
(* The schema reflector.  A struct type is its declaration: its name, its  *)
(* TableName method if it has one, and its fields with their tags.         *)
(***************************************************************************)
\* a field declaration: a plain exported scalar unless said otherwise
Decl(name) ==
    [Name |-> name, exported |-> TRUE, sqlIgnore |-> FALSE, primaryKey |-> FALSE,
     column |-> "", hasDefault |-> FALSE, sqlType |-> "", additional |-> "",
     kind |-> "scalar", elem |-> "", many2many |-> "", foreignKey |-> "",
     foreignType |-> "", associationForeignKey |-> "", polymorphic |-> "",
     embedded |-> FALSE]

Base ==
    [Name |-> "Base", chars |-> <<"b", "a", "s", "e">>, tableName |-> "",
     fields |-> << Decl("Id"), [Decl("CreatedAt") EXCEPT !.kind = "time"] >>]
User ==
    [Name |-> "User", chars |-> <<"u", "s", "e", "r">>, tableName |-> "",
     fields |-> << Decl("Id"),
                   [Decl("Name") EXCEPT !.additional = "NOT NULL"],
                   [Decl("Emails") EXCEPT !.kind = "slice", !.elem = "Email"],
                   [Decl("Languages") EXCEPT !.kind = "slice", !.elem = "Language",
                                             !.many2many = "user_languages"],
                   [Decl("Secret") EXCEPT !.sqlIgnore = TRUE],
                   [Decl("password") EXCEPT !.exported = FALSE] >>]
Email ==
    [Name |-> "Email", chars |-> <<"e", "m", "a", "i", "l">>, tableName |-> "",
     fields |-> << Decl("Id"), Decl("UserId"),
                   [Decl("Email") EXCEPT !.sqlType = "varchar(100)"] >>]
Language ==
    [Name |-> "Language", chars |-> <<"l", "a", "n", "g", "u", "a", "g", "e">>,
     tableName |-> "",
     fields |-> << Decl("Id"), Decl("Name"),
                   [Decl("Users") EXCEPT !.kind = "slice", !.elem = "User",
                                         !.many2many = "user_languages"] >>]
Address ==
    [Name |-> "Address", chars |-> <<"a", "d", "d", "r", "e", "s", "s">>, tableName |-> "",
     fields |-> << [Decl("Base") EXCEPT !.kind = "struct", !.elem = "Base", !.embedded = TRUE],
                   Decl("Street"),
                   [Decl("Tags") EXCEPT !.kind = "slice"],
                   Decl("UserId"),
                   [Decl("User") EXCEPT !.kind = "struct", !.elem = "User"] >>]
Company ==
    [Name |-> "Company", chars |-> <<"c", "o", "m", "p", "a", "n", "y">>,
     tableName |-> "firms",
     fields |-> << [Decl("Code") EXCEPT !.primaryKey = TRUE, !.column = "code_no"],
                   [Decl("Owner") EXCEPT !.kind = "struct", !.elem = "User"],
                   [Decl("Rating") EXCEPT !.kind = "scanner", !.hasDefault = TRUE] >>]
Office ==
    [Name |-> "Office", chars |-> <<"o", "f", "f", "i", "c", "e">>, tableName |-> "",
     fields |-> << [Decl("Company") EXCEPT !.kind = "struct", !.elem = "Company",
                                           !.embedded = TRUE],
                   Decl("City") >>]

Types == {"Base", "User", "Email", "Language", "Address", "Company", "Office"}
TypeDecl(ty) ==
    CASE ty = "Base" -> Base [] ty = "User" -> User [] ty = "Email" -> Email
      [] ty = "Language" -> Language [] ty = "Address" -> Address [] ty = "Company" -> Company
      [] ty = "Office" -> Office

\* ToDBName on the identifiers of these types
SnakeCase ==
    { <<"Id", "id">>, <<"CreatedAt", "created_at">>, <<"Name", "name">>,
      <<"Emails", "emails">>, <<"Languages", "languages">>, <<"Secret", "secret">>,
      <<"UserId", "user_id">>, <<"Email", "email">>, <<"Users", "users">>,
      <<"Base", "base">>, <<"Street", "street">>, <<"Tags", "tags">>, <<"User", "user">>,
      <<"Code", "code">>, <<"Owner", "owner">>, <<"Rating", "rating">>,
      <<"EmailId", "email_id">>, <<"LanguageId", "language_id">>,
      <<"AddressId", "address_id">>, <<"CompanyId", "company_id">>,
      <<"BaseId", "base_id">>, <<"OwnerId", "owner_id">>, <<"Company", "company">>,
      <<"City", "city">>, <<"OfficeId", "office_id">>, <<"", "">> }
ToDBName(name) == (CHOOSE p \in SnakeCase : p[1] = name)[2]

\* Type.FieldByName(name) finds a field, promoted ones included
RECURSIVE HasField(_, _)
HasField(ty, name) ==
    \E i \in 1..Len(TypeDecl(ty).fields) :
        LET f == TypeDecl(ty).fields[i]
        IN \/ f.Name = name
           \/ f.kind = "struct" /\ f.embedded /\ HasField(f.elem, name)

EndsWith(s, suffix) ==
    Len(s) >= Len(suffix) /\ SubSeq(s, Len(s) - Len(suffix) + 1, Len(s)) = suffix
ReplaceSuffix(s, suffix, new) == SubSeq(s, 1, Len(s) - Len(suffix)) \o new

\* pluralMapKeys[index] matched and replaced by pluralMapValues[index]
pluralMap(name, index) ==
    CASE index = 1 -> IF EndsWith(name, <<"c", "h">>)
                      THEN ReplaceSuffix(name, <<"c", "h">>, <<"c", "h", "e", "s">>) ELSE name
      [] index = 2 -> IF EndsWith(name, <<"s", "s">>)
                      THEN ReplaceSuffix(name, <<"s", "s">>, <<"s", "s", "e", "s">>) ELSE name
      [] index = 3 -> IF EndsWith(name, <<"s", "h">>)
                      THEN ReplaceSuffix(name, <<"s", "h">>, <<"s", "h", "e", "s">>) ELSE name
      [] index = 4 -> IF EndsWith(name, <<"d", "a", "y">>)
                      THEN ReplaceSuffix(name, <<"d", "a", "y">>, <<"d", "a", "y", "s">>) ELSE name
      [] index = 5 -> IF EndsWith(name, <<"y">>)
                      THEN ReplaceSuffix(name, <<"y">>, <<"i", "e", "s">>) ELSE name
      [] index = 6 -> IF EndsWith(name, <<"x">>)
                      THEN ReplaceSuffix(name, <<"x">>, <<"x", "e", "s">>) ELSE name
      \* "([^s])s?$" -> "${1}s": the leftmost match is the last letter but one
      \* when it is not an s and an s follows, else the last letter when it is not an s
      [] index = 7 -> IF Len(name) >= 2 /\ name[Len(name) - 1] # "s" /\ name[Len(name)] = "s"
                      THEN name
                      ELSE IF Len(name) >= 1 /\ name[Len(name)] # "s"
                      THEN Append(name, "s")
                      ELSE name

\* the loop of lines 151-155 without its last rule
RECURSIVE pluralizeSpecial(_, _)
pluralizeSpecial(name, index) ==
    IF index > 6 THEN name ELSE pluralizeSpecial(pluralMap(name, index), index + 1)

\* lines 151-155: every rule that matches is applied, in order
RECURSIVE pluralize(_, _)
pluralize(name, index) ==
    IF index > 7 THEN name ELSE pluralize(pluralMap(name, index), index + 1)

\* lines 141-157
tableNameOf(decl, hasDB, singular) ==
    IF decl.tableName # "" THEN decl.tableName
    ELSE IF ~hasDB \/ ~singular THEN StrOf(pluralize(decl.chars, 1))
    ELSE StrOf(decl.chars)

noRelationship ==
    [Kind |-> "", ForeignType |-> "", ForeignFieldName |-> "", ForeignDBName |-> "",
     AssociationForeignFieldName |-> "", AssociationForeignDBName |-> "", JoinTable |-> ""]

\* lines 162-167
newField(fs) ==
    [DBName |-> "", Name |-> fs.Name, Names |-> <<fs.Name>>, IsPrimaryKey |-> FALSE,
     IsNormal |-> FALSE, IsIgnored |-> FALSE, IsScanner |-> FALSE,
     HasDefaultValue |-> FALSE, SqlTag |-> "", IsForeignKey |-> FALSE,
     Relationship |-> noRelationship, Struct |-> fs]

\* lines 172-287 for a field that is neither ignored nor embedded
reflectField(ty, fs) ==
    LET tagged == [newField(fs) EXCEPT
                      !.IsPrimaryKey = fs.primaryKey,
                      !.HasDefaultValue = fs.hasDefault,
                      !.DBName = IF fs.column # "" THEN fs.column ELSE ToDBName(fs.Name),
                      !.IsScanner = fs.kind = "scanner",
                      !.IsNormal = fs.kind \in {"scanner", "time"}]
        foreignKey0 == IF fs.polymorphic # "" THEN fs.polymorphic \o "Id" ELSE fs.foreignKey
        foreignType == IF fs.polymorphic # "" THEN fs.polymorphic \o "Type" ELSE fs.foreignType
    IN IF tagged.IsNormal THEN tagged
       ELSE IF fs.kind = "slice" /\ fs.elem # ""
       THEN LET foreignKey1 == IF foreignKey0 = "" THEN ty \o "Id" ELSE foreignKey0
                associationForeignKey == IF fs.associationForeignKey = ""
                                         THEN fs.elem \o "Id" ELSE fs.associationForeignKey
                foreignKey == IF fs.many2many = "" /\ ~HasField(fs.elem, foreignKey1)
                              THEN "" ELSE foreignKey1
            IN [tagged EXCEPT !.Relationship =
                   [JoinTable |-> fs.many2many,
                    ForeignType |-> foreignType,
                    ForeignFieldName |-> foreignKey,
                    AssociationForeignFieldName |-> associationForeignKey,
                    ForeignDBName |-> ToDBName(foreignKey),
                    AssociationForeignDBName |-> ToDBName(associationForeignKey),
                    Kind |-> IF fs.many2many # "" THEN "many_to_many" ELSE "has_many"]]
       ELSE IF fs.kind = "struct"
       THEN LET belongsToForeignKey == IF foreignKey0 = "" THEN fs.Name \o "Id" ELSE foreignKey0
                hasOneForeignKey == IF foreignKey0 = "" THEN ty \o "Id" ELSE foreignKey0
                belongs == HasField(ty, belongsToForeignKey)
                foreignKey == IF belongs THEN belongsToForeignKey ELSE hasOneForeignKey
            IN [tagged EXCEPT !.Relationship =
                   [noRelationship EXCEPT
                      !.ForeignFieldName = foreignKey,
                      !.ForeignDBName = ToDBName(foreignKey),
                      !.ForeignType = foreignType,
                      !.Kind = IF belongs THEN "belongs_to" ELSE "has_one"]]
       ELSE [tagged EXCEPT !.IsNormal = TRUE]

\* generateSqlTag, the dialect's column types being PRIMARY(kind) and TYPE(kind)
generateSqlTag(field) ==
    LET sqlType == IF field.Struct.sqlType # "" THEN field.Struct.sqlType
                   ELSE IF field.IsPrimaryKey THEN "PRIMARY(" \o field.Struct.kind \o ")"
                   ELSE "TYPE(" \o field.Struct.kind \o ")"
    IN [field EXCEPT !.SqlTag = IF field.Struct.additional = "" THEN sqlType
                                ELSE sqlType \o " " \o field.Struct.additional]

\* field.clone(), then line 252
embed(field, name) == [field EXCEPT !.Names = <<name>> \o @]

\* lines 292-303
RECURSIVE finish(_, _, _)
finish(ms, i, hasDB) ==
    IF i > Len(ms.StructFields) THEN ms
    ELSE LET field == ms.StructFields[i]
             isId == ms.PrimaryKeyField = 0 /\ field.DBName = "id"
             tagged(keyed) == IF hasDB THEN generateSqlTag(keyed) ELSE keyed
             done == tagged(IF isId THEN [field EXCEPT !.IsPrimaryKey = TRUE] ELSE field)
         IN IF field.IsNormal
            THEN finish([ms EXCEPT !.StructFields[i] = done,
                                   !.PrimaryKeyField = IF isId THEN i ELSE @], i + 1, hasDB)
            ELSE finish(ms, i + 1, hasDB)

emptyStruct == [PrimaryKeyField |-> 0, StructFields |-> <<>>, TableName |-> ""]

\* what reflect makes of scope.Value: the struct type it leads to, "" if none
scopeType(ty, form) == IF form = "nilPointer" THEN "" ELSE ty
Forms == {"value", "pointer", "slice", "sliceOfPointers", "nilPointer"}

RECURSIVE GetModelStruct(_, _, _, _, _, _)
RECURSIVE setFields(_, _, _, _, _, _, _)

\* lines 160-290, from field i on; an embedded struct is reflected by a call of
\* GetModelStruct of its own, which reads and writes the cache
setFields(ty, i, ms, hasDB, singular, cache, heap) ==
    IF i > Len(TypeDecl(ty).fields) THEN [ms |-> ms, ModelStructs |-> cache, structs |-> heap]
    ELSE LET fs == TypeDecl(ty).fields[i]
             at == Len(ms.StructFields) + 1
         IN IF ~fs.exported THEN setFields(ty, i + 1, ms, hasDB, singular, cache, heap)
            ELSE IF fs.sqlIgnore
            THEN setFields(ty, i + 1,
                           [ms EXCEPT !.StructFields = Append(@, [newField(fs) EXCEPT !.IsIgnored = TRUE])],
                           hasDB, singular, cache, heap)
            ELSE IF fs.kind = "struct" /\ fs.embedded
            THEN LET own == [reflectField(ty, fs) EXCEPT !.Relationship = noRelationship]
                     spliced(inner) == [k \in 1..Len(inner) |-> embed(inner[k], fs.Name)]
                     embedded(g, inner) ==
                         setFields(ty, i + 1,
                                   [ms EXCEPT !.StructFields = @ \o spliced(inner) \o <<own>>,
                                              !.PrimaryKeyField =
                                                  IF fs.primaryKey THEN at + Len(inner) ELSE @],
                                   hasDB, singular, g.ModelStructs, g.structs)
                     nested(g) == embedded(g, g.structs[g.ret].StructFields)
                 IN nested(GetModelStruct(fs.elem, "pointer", hasDB, singular, cache, heap))
            ELSE setFields(ty, i + 1,
                           [ms EXCEPT !.StructFields = Append(@, reflectField(ty, fs)),
                                      !.PrimaryKeyField = IF fs.primaryKey THEN at ELSE @],
                           hasDB, singular, cache, heap)

\* lines 137-303 for a struct type: the descriptor, and the cache and the heap
\* as the embedded types' calls leave them
describe(ty, hasDB, singular, cache, heap) ==
    LET named == [emptyStruct EXCEPT !.TableName = tableNameOf(TypeDecl(ty), hasDB, singular)]
        finished(r) == [r EXCEPT !.ms = finish(r.ms, 1, hasDB)]
    IN finished(setFields(ty, 1, named, hasDB, singular, cache, heap))

\* GetModelStruct run from start to end: the address returned, the cache and
\* the heap afterwards
GetModelStruct(ty, form, hasDB, singular, cache, heap) ==
    IF scopeType(ty, form) = ""
    THEN [ret |-> Len(heap) + 1, ModelStructs |-> cache, structs |-> Append(heap, emptyStruct)]
    ELSE IF hasDB /\ cache[ty] # 0
    THEN [ret |-> cache[ty], ModelStructs |-> cache, structs |-> heap]
    ELSE LET stored(d, at) ==
                 [ret |-> at,
                  ModelStructs |-> IF hasDB THEN [d.ModelStructs EXCEPT ![ty] = at]
                                   ELSE d.ModelStructs,
                  structs |-> Append(d.structs, d.ms)]
             described(d) == stored(d, Len(d.structs) + 1)
         IN described(describe(ty, hasDB, singular, cache, heap))

(***************************************************************************)
(* GetModelStruct called from threads that share one handle.  The function *)
(* takes no lock: a call reads the cache (line 132), computes, and writes  *)
(* the cache (line 306), and other threads run between these steps.        *)
(***************************************************************************)
Threads == {1, 2}
MaxCalls == 3
CallTypes == {"User", "Address"}

noCall == [ty |-> "", form |-> "", after |-> FALSE, addr |-> 0]
noReturn == [ty |-> "", valid |-> FALSE, after |-> FALSE, ret |-> 0, computed |-> FALSE]

CacheIdle ==
    /\ singularTable = FALSE
    /\ ModelStructs = [ty \in Types |-> 0]
    /\ structs = <<>>
    /\ pc = [t \in Threads |-> "idle"]
    /\ call = [t \in Threads |-> noCall]
    /\ returned = [t \in Threads |-> noReturn]
    /\ first = [ty \in Types |-> 0]
    /\ writes = [ty \in Types |-> 0]
    /\ raced = FALSE
    /\ fatal = FALSE
    /\ ncalls = 0

\* another thread is inside its assignment to the cache map
Storing(t) == \E u \in Threads \ {t} : pc[u] = "storing"

\* line 309 (and 118, 133): the call of thread t returns the descriptor at addr
return(t, addr, computed) ==
    /\ returned' = [returned EXCEPT ![t] =
                       [ty |-> call[t].ty, valid |-> scopeType(call[t].ty, call[t].form) # "",
                        after |-> call[t].after, ret |-> addr, computed |-> computed]]
    /\ call' = [call EXCEPT ![t] = noCall]
    /\ pc' = [pc EXCEPT ![t] = "idle"]

\* db.SingularTable(enable)
SetSingular(enable) ==
    /\ ~fatal /\ enable # singularTable
    /\ singularTable' = enable
    /\ UNCHANGED <<ModelStructs, structs, pc, call, returned, first, writes, raced, fatal,
                   ncalls, condVars, otherVars, singleVars>>

\* a thread enters GetModelStruct with a scope of the handle (scope.db is
\* not nil) and of the given value
Call(t, ty, form) ==
    /\ ~fatal /\ pc[t] = "idle" /\ ncalls < MaxCalls
    /\ ncalls' = ncalls + 1
    /\ call' = [call EXCEPT ![t] = [ty |-> ty, form |-> form, after |-> first[ty] # 0,
                                    addr |-> 0]]
    /\ pc' = [pc EXCEPT ![t] = "lookup"]
    /\ UNCHANGED <<singularTable, ModelStructs, structs, returned, first, writes, raced,
                   fatal, condVars, otherVars, singleVars>>

\* lines 116-135.  A read of the map while another thread writes it is a
\* data race: the runtime may stop the program, and otherwise the read sees
\* the map without the entry being written or, for the same type, with it.
Lookup(t) ==
    /\ ~fatal /\ pc[t] = "lookup"
    /\ LET c == call[t]
           seen == {ModelStructs[c.ty]} \cup
                   {call[u].addr : u \in {u \in Threads \ {t} :
                                             pc[u] = "storing" /\ call[u].ty = c.ty}}
       IN IF scopeType(c.ty, c.form) = ""
          THEN /\ structs' = Append(structs, emptyStruct)
               /\ return(t, Len(structs) + 1, FALSE)
               /\ UNCHANGED <<raced, fatal>>
          ELSE /\ raced' = (raced \/ Storing(t))
               /\ \/ /\ Storing(t)
                     /\ fatal' = TRUE
                     /\ UNCHANGED <<structs, pc, call, returned>>
                  \/ /\ \E value \in seen :
                           IF value # 0
                           THEN return(t, value, FALSE)
                           ELSE /\ pc' = [pc EXCEPT ![t] = "compute"]
                                /\ UNCHANGED <<call, returned>>
                     /\ UNCHANGED <<structs, fatal>>
    /\ UNCHANGED <<singularTable, ModelStructs, first, writes, ncalls, condVars, otherVars,
                   singleVars>>

\* lines 137-303: the descriptor is built in the thread's own modelStruct; the
\* calls for embedded types go through the cache themselves
Compute(t) ==
    /\ ~fatal /\ pc[t] = "compute"
    /\ \E c \in {call[t]} :
       \E d \in {describe(c.ty, TRUE, singularTable, ModelStructs, structs)} :
       \E addr \in {Len(d.structs) + 1} :
       \E stored \in {{ty \in Types : d.ModelStructs[ty] # ModelStructs[ty]}} :
          /\ structs' = Append(d.structs, d.ms)
          /\ ModelStructs' = d.ModelStructs
          /\ writes' = [ty \in Types |-> IF ty \in stored THEN writes[ty] + 1 ELSE writes[ty]]
          /\ first' = [ty \in Types |-> IF ty \in stored /\ first[ty] = 0
                                        THEN d.ModelStructs[ty] ELSE first[ty]]
          /\ raced' = (raced \/ (stored # {} /\ Storing(t)))
          /\ call' = [call EXCEPT ![t].addr = addr]
          /\ pc' = [pc EXCEPT ![t] = "store"]
          /\ UNCHANGED returned
    /\ UNCHANGED <<singularTable, fatal, ncalls, condVars, otherVars, singleVars>>

\* line 306, the map assignment begins; two assignments at once are a data
\* race, on which the runtime may stop the program
StoreBegin(t) ==
    /\ ~fatal /\ pc[t] = "store"
    /\ raced' = (raced \/ Storing(t))
    /\ \/ /\ Storing(t)
          /\ fatal' = TRUE
          /\ UNCHANGED pc
       \/ /\ pc' = [pc EXCEPT ![t] = "storing"]
          /\ UNCHANGED fatal
    /\ UNCHANGED <<singularTable, ModelStructs, structs, call, returned, first, writes,
                   ncalls, condVars, otherVars, singleVars>>

\* line 306, the map assignment ends, and line 309
StoreEnd(t) ==
    /\ ~fatal /\ pc[t] = "storing"
    /\ LET c == call[t]
       IN /\ ModelStructs' = [ModelStructs EXCEPT ![c.ty] = c.addr]
          /\ writes' = [writes EXCEPT ![c.ty] = @ + 1]
          /\ first' = [first EXCEPT ![c.ty] = IF @ = 0 THEN c.addr ELSE @]
          /\ return(t, c.addr, TRUE)
    /\ UNCHANGED <<singularTable, structs, raced, fatal, ncalls, condVars, otherVars,
                   singleVars>>

CacheNext ==
    \/ \E enable \in BOOLEAN : SetSingular(enable)
    \/ \E t \in Threads, ty \in CallTypes, form \in Forms : Call(t, ty, form)
    \/ \E t \in Threads : Lookup(t)
    \/ \E t \in Threads : Compute(t)
    \/ \E t \in Threads : StoreBegin(t)
    \/ \E t \in Threads : StoreEnd(t)

(***************************************************************************)
(* Migration.  A statement is the sequence of the pieces its format string *)
(* puts together; the database is the tables that exist with their columns.*)
(***************************************************************************)
MigrateTypes == {"User", "Language", "Email", "Address"}

\* the columns of a descriptor, and the descriptor a call returned
NormalColumns(ms) ==
    {ms.StructFields[i].DBName :
        i \in {i \in 1..Len(ms.StructFields) : ms.StructFields[i].IsNormal}}
Described(g) == g.structs[g.ret]

HasTable(db, tableName) == tableName \in DOMAIN db
HasColumn(db, tableName, columnName) == HasTable(db, tableName) /\ columnName \in db[tableName]

\* the database after CREATE TABLE and after ALTER TABLE ADD
withTable(db, tableName, columns) ==
    [n \in DOMAIN db \cup {tableName} |-> IF n = tableName THEN columns ELSE db[n]]
withColumn(db, tableName, columnName) ==
    [db EXCEPT ![tableName] = @ \cup {columnName}]

\* scope.Dialect().SqlTag(scope.PrimaryKeyField().Field, 255)
primaryKeySqlType(ms) == "TYPE(" \o ms.StructFields[ms.PrimaryKeyField].Struct.kind \o ")"

\* lines 437-446: the CREATE TABLE of a field's join table, executed
joinTableCreated(ms, field, db) ==
    [db |-> withTable(db, field.Relationship.JoinTable,
                      {field.Relationship.ForeignDBName,
                       field.Relationship.AssociationForeignDBName}),
     executed |-> << <<"CREATE TABLE ", field.Relationship.JoinTable, " (",
                       Quote(field.Relationship.ForeignDBName) \o " " \o primaryKeySqlType(ms),
                       ",",
                       Quote(field.Relationship.AssociationForeignDBName) \o " "
                           \o primaryKeySqlType(ms),
                       ")">> >>]

\* createJoinTable without the test of line 436
createJoinTableAlways(ms, field, db) ==
    IF field.Relationship.Kind # "" /\ field.Relationship.JoinTable # ""
    THEN joinTableCreated(ms, field, db)
    ELSE [db |-> db, executed |-> <<>>]

\* lines 434-448: the database afterwards and the statements executed
createJoinTable(ms, field, db) ==
    IF field.Relationship.Kind # "" /\ field.Relationship.JoinTable # ""
    THEN IF ~HasTable(db, field.Relationship.JoinTable)
         THEN joinTableCreated(ms, field, db)
         ELSE [db |-> db, executed |-> <<>>]
    ELSE [db |-> db, executed |-> <<>>]

\* lines 452-457, from field i on: the column definitions gathered
RECURSIVE createTableFields(_, _, _, _, _)
createTableFields(ms, i, sqls, db, stmts) ==
    IF i > Len(ms.StructFields) THEN [sqls |-> sqls, db |-> db, executed |-> stmts]
    ELSE LET structField == ms.StructFields[i]
             j == createJoinTable(ms, structField, db)
         IN createTableFields(ms, i + 1,
                              IF structField.IsNormal
                              THEN Append(sqls, Quote(structField.DBName) \o " " \o structField.SqlTag)
                              ELSE sqls,
                              j.db, stmts \o j.executed)

\* lines 450-460
createTable(ms, db) ==
    LET created(r) ==
            [db |-> withTable(r.db, ms.TableName, NormalColumns(ms)),
             executed |-> Append(r.executed,
                                 <<"CREATE TABLE ", Quote(ms.TableName), " (">>
                                     \o Join([i \in 1..Len(r.sqls) |-> <<r.sqls[i]>>], <<",">>)
                                     \o <<")">>)]
    IN created(createTableFields(ms, 1, <<>>, db, <<>>))

\* lines 512-519, from field i on
RECURSIVE addColumns(_, _, _, _)
addColumns(ms, i, db, stmts) ==
    IF i > Len(ms.StructFields) THEN [db |-> db, executed |-> stmts]
    ELSE LET field == ms.StructFields[i]
             add == ~HasColumn(db, ms.TableName, field.DBName) /\ field.IsNormal
             altered == IF add THEN withColumn(db, ms.TableName, field.DBName) ELSE db
             alter == IF add
                      THEN << <<"ALTER TABLE ", Quote(ms.TableName), " ADD ", field.DBName, " ",
                                field.SqlTag, ";">> >>
                      ELSE <<>>
             j == createJoinTable(ms, field, altered)
         IN addColumns(ms, i + 1, j.db, stmts \o alter \o j.executed)

\* lines 505-522
autoMigrate(ms, db) ==
    IF ~HasTable(db, ms.TableName) THEN createTable(ms, db) ELSE addColumns(ms, 1, db, <<>>)

\* the columns a struct type declares, and the join tables it names
Columns(ty) ==
    NormalColumns(Described(GetModelStruct(ty, "pointer", TRUE, FALSE, [t \in Types |-> 0], <<>>)))
tableNameOfType(ty) == tableNameOf(TypeDecl(ty), TRUE, FALSE)
JoinTables(ty) ==
    {TypeDecl(ty).fields[i].many2many : i \in 1..Len(TypeDecl(ty).fields)} \ {""}

\* the databases a handle may be opened on: empty, or holding the table of
\* one struct type with some of its columns, with or without its join tables
Databases ==
    {<<>>} \cup
    UNION {{ [n \in {tableNameOfType(ty)} \cup joins |->
                 IF n = tableNameOfType(ty) THEN columns ELSE {"user_id", "language_id"}] :
             columns \in SUBSET Columns(ty), joins \in SUBSET JoinTables(ty) } :
           ty \in MigrateTypes}

noMigration == [ty |-> "", before |-> <<>>]
noRelated == [owner |-> "", to |-> "", form |-> "", foreignKeys |-> <<>>, queries |-> <<>>,
              err |-> ""]

\* no single run made yet
noNaming ==
    [name |-> <<>>, tableName |-> "", hasDB |-> FALSE, singular |-> FALSE,
     named |-> FALSE, table |-> "", plurals |-> <<>>]
noPaging == [HasTop |-> FALSE, Limit |-> "", Offset |-> "", rendered |-> {},
             topSql |-> <<>>, limitSql |-> <<>>, offsetSql |-> <<>>]
noReflection == [calls |-> 0, ty |-> "", form |-> "", hasDB |-> FALSE, ret |-> 0]

SingleIdle ==
    /\ naming = noNaming
    /\ paging = noPaging
    /\ reflected = noReflection

OtherIdle ==
    /\ tables = <<>>
    /\ executed = <<>>
    /\ migrating = noMigration
    /\ related = noRelated

MigrateInit ==
    /\ tables \in Databases
    /\ executed = <<>>
    /\ migrating = noMigration
    /\ related = noRelated

\* db.AutoMigrate(&T{}) for one value: scope.autoMigrate() as a whole, the
\* descriptor coming from the cache or being stored in it
AutoMigrate(ty) ==
    /\ \E g \in {GetModelStruct(ty, "pointer", TRUE, singularTable, ModelStructs, structs)} :
       \E r \in {autoMigrate(g.structs[g.ret], tables)} :
          /\ ModelStructs' = g.ModelStructs
          /\ structs' = g.structs
          /\ tables' = r.db
          /\ executed' = r.executed
          /\ migrating' = [ty |-> ty, before |-> tables]
    /\ UNCHANGED <<singularTable, pc, call, returned, first, writes, raced, fatal, ncalls,
                   related, condVars, singleVars>>

\* scope.dropTable()
DropTable(ty) ==
    /\ \E g \in {GetModelStruct(ty, "pointer", TRUE, singularTable, ModelStructs, structs)} :
       \E tableName \in {g.structs[g.ret].TableName} :
          /\ HasTable(tables, tableName)
          /\ ModelStructs' = g.ModelStructs
          /\ structs' = g.structs
          /\ tables' = [n \in DOMAIN tables \ {tableName} |-> tables[n]]
          /\ executed' = << <<"DROP TABLE ", Quote(tableName)>> >>
          /\ migrating' = noMigration
    /\ UNCHANGED <<singularTable, pc, call, returned, first, writes, raced, fatal, ncalls,
                   related, condVars, singleVars>>

MigrateNext ==
    \/ \E ty \in MigrateTypes : AutoMigrate(ty)
    \/ \E ty \in MigrateTypes : DropTable(ty)

(***************************************************************************)
(* Association lookup: scope.related(value, foreignKeys...) on the scope   *)
(* of an owner struct.                                                     *)
(***************************************************************************)
MaxKeys == 1
RelateTypes == {"User", "Email", "Address", "Language"}
RelateForms == {"pointer", "slice", "sliceOfPointers"}
KeyNames == {"Name", "Languages", "UserId", "Emails"}

\* lines 378-385: a slice of pointers has an element type without a name
typeName(ty, form) ==
    IF form = "sliceOfPointers" THEN "" ELSE ty

\* scope.Fields()[dbName]: the field of that column name, 0 if there is none
Fields(ms, dbName) ==
    LET at == {i \in 1..Len(ms.StructFields) : ms.StructFields[i].DBName = dbName}
    IN IF at = {} THEN 0 ELSE CHOOSE i \in at : \A k \in at : k <= i

\* scope.PrimaryKey()
PrimaryKeyOf(ms) ==
    IF ms.PrimaryKeyField = 0 THEN "" ELSE ms.StructFields[ms.PrimaryKeyField].DBName

\* lines 391-426, from candidate i on: the queries issued, and whether a
\* candidate was taken
RECURSIVE relatedFrom(_, _, _, _)
relatedFrom(from, to, keys, i) ==
    IF i > Len(keys) THEN [queries |-> <<>>, found |-> FALSE]
    ELSE LET foreignKey == keys[i]
             fromField == Fields(from, ToDBName(foreignKey))
             toField == Fields(to, ToDBName(foreignKey))
             relationship == from.StructFields[fromField].Relationship
             PrimaryKeyValue == <<"PrimaryKeyValue">>
             FieldValue == <<"Field", from.StructFields[fromField].Name>>
         IN IF fromField # 0
            THEN IF relationship.Kind # ""
                 THEN IF relationship.Kind = "many_to_many"
                      THEN [found |-> TRUE, queries |-> <<
                               [side |-> "owner", key |-> foreignKey, table |-> to.TableName,
                                joins |-> <<"INNER JOIN ", Quote(relationship.JoinTable), " ON ",
                                            Quote(relationship.JoinTable), ".",
                                            Quote(relationship.AssociationForeignDBName), " = ",
                                            Quote(to.TableName), ".", Quote(PrimaryKeyOf(to))>>,
                                where |-> << [query |-> <<Quote(relationship.JoinTable), ".",
                                                          Quote(relationship.ForeignDBName), " = ?">>,
                                              args |-> PrimaryKeyValue] >>] >>]
                      ELSE IF relationship.Kind = "belongs_to"
                      THEN [found |-> TRUE, queries |-> <<
                               [side |-> "owner", key |-> foreignKey, table |-> to.TableName,
                                joins |-> <<>>,
                                where |-> << [query |-> <<Quote(PrimaryKeyOf(to)), " = ?">>,
                                              args |-> FieldValue] >>] >>]
                      ELSE IF relationship.Kind \in {"has_many", "has_one"}
                      THEN [found |-> TRUE, queries |-> <<
                               [side |-> "owner", key |-> foreignKey, table |-> to.TableName,
                                joins |-> <<>>,
                                where |->
                                   << [query |-> <<Quote(relationship.ForeignDBName), " = ?">>,
                                       args |-> PrimaryKeyValue] >> \o
                                   IF /\ relationship.ForeignType # ""
                                      /\ Fields(to, ToDBName(relationship.ForeignType)) # 0
                                   THEN << [query |-> <<Quote(ToDBName(relationship.ForeignType)),
                                                        " = ?">>,
                                            args |-> <<"TableName", from.TableName>>] >>
                                   ELSE <<>>] >>]
                      ELSE [found |-> TRUE, queries |-> <<>>]
                 ELSE [found |-> TRUE, queries |-> <<
                          [side |-> "owner", key |-> foreignKey, table |-> to.TableName,
                           joins |-> <<>>,
                           where |-> << [query |-> <<Quote(PrimaryKeyOf(to)), " = ?">>,
                                         args |-> FieldValue] >>] >>]
            ELSE IF toField # 0
            THEN [found |-> TRUE, queries |-> <<
                     [side |-> "related", key |-> foreignKey, table |-> to.TableName,
                      joins |-> <<>>,
                      where |-> << [query |-> <<Quote(to.StructFields[toField].DBName), " = ?">>,
                                    args |-> PrimaryKeyValue] >>] >>]
            ELSE relatedFrom(from, to, keys, i + 1)

\* line 391: the candidates, in the order they are tried
candidates(owner, ty, form, foreignKeys) ==
    foreignKeys \o <<typeName(ty, form) \o "Id", typeName(owner, "pointer") \o "Id">>

\* db.Model(&owner).Related(value, foreignKeys...): scope.related as a whole,
\* the two descriptors coming from the cache or being stored in it
Related(owner, ty, form, foreignKeys) ==
    /\ related = noRelated
    /\ \E f \in {GetModelStruct(owner, "pointer", TRUE, singularTable, ModelStructs, structs)} :
       \E t \in {GetModelStruct(ty, form, TRUE, singularTable, f.ModelStructs, f.structs)} :
       \E r \in {relatedFrom(f.structs[f.ret], t.structs[t.ret],
                              candidates(owner, ty, form, foreignKeys), 1)} :
          /\ ModelStructs' = t.ModelStructs
          /\ structs' = t.structs
          /\ related' = [owner |-> owner, to |-> ty, form |-> form, foreignKeys |-> foreignKeys,
                         queries |-> r.queries,
                         err |-> IF r.found THEN "" ELSE "invalid association"]
    /\ UNCHANGED <<singularTable, pc, call, returned, first, writes, raced, fatal, ncalls,
                   tables, executed, migrating, condVars, singleVars>>

RelatedNext ==
    \E owner \in RelateTypes, ty \in RelateTypes, form \in RelateForms,
       foreignKeys \in SeqsUpTo(KeyNames, MaxKeys) :
        Related(owner, ty, form, foreignKeys)


(***************************************************************************)
(* Claims about the schema reflector.                                      *)
(***************************************************************************)
\* C4: once a descriptor of a struct type has been stored on the handle,
\* every call for that type begun afterwards, through a value, a pointer or
\* a slice, returns that very descriptor and computes none, whatever calls
\* for other types and changes of the singular-table setting came between.
C4_LaterCallsReturnFirstDescriptor ==
    \A t \in Threads :
        (returned[t].ty # "" /\ returned[t].valid /\ returned[t].after)
            => /\ returned[t].ret = first[returned[t].ty]
               /\ ~returned[t].computed

\* C5: no struct type has its cache entry written twice, and no write to the
\* cache overlaps a read or a write of it by another thread.
C5_ComputeAndInsertSerialized ==
    /\ \A ty \in Types : writes[ty] <= 1
    /\ ~raced

(***************************************************************************)
(* Claims about migration.                                                 *)
(***************************************************************************)
\* the columns a struct type declares, read off its declaration
RECURSIVE DeclaredColumns(_)
DeclaredColumns(ty) ==
    UNION { LET f == TypeDecl(ty).fields[i]
            IN IF ~f.exported \/ f.sqlIgnore THEN {}
               ELSE IF f.kind = "struct" /\ f.embedded THEN DeclaredColumns(f.elem)
               ELSE IF f.kind = "struct" \/ (f.kind = "slice" /\ f.elem # "") THEN {}
               ELSE {IF f.column # "" THEN f.column ELSE ToDBName(f.Name)}
            : i \in 1..Len(TypeDecl(ty).fields) }

IsCreateTable(stmt) == stmt[1] = "CREATE TABLE "
IsAddColumn(stmt) == stmt[1] = "ALTER TABLE " /\ stmt[3] = " ADD "
CreatesOf(name) ==
    Cardinality({i \in 1..Len(executed) : IsCreateTable(executed[i]) /\ executed[i][2] = name})
Creates == Cardinality({i \in 1..Len(executed) : IsCreateTable(executed[i])})
Alters == Cardinality({i \in 1..Len(executed) : IsAddColumn(executed[i])})

Migrated == migrating.ty # ""
MigratedTable == structs[ModelStructs[migrating.ty]].TableName
TableExisted == MigratedTable \in DOMAIN migrating.before
MissingColumns == DeclaredColumns(migrating.ty) \ migrating.before[MigratedTable]
MissingJoinTables == JoinTables(migrating.ty) \ DOMAIN migrating.before

\* C6 as amended: autoMigrate executes, for a table that does not exist, one
\* CREATE TABLE of it and no ALTER TABLE; for a table that exists and lacks k
\* declared columns, k ALTER TABLE ... ADD and no CREATE TABLE of it; and in
\* both cases, besides, one CREATE TABLE for every join table that a
\* many-to-many field of the type names and that does not exist; nothing else.
C6_MigrationStatements ==
    Migrated
        => /\ Len(executed) = Creates + Alters
           /\ Creates = CreatesOf(Quote(MigratedTable)) + Cardinality(MissingJoinTables)
           /\ \A join \in MissingJoinTables : CreatesOf(join) = 1
           /\ IF TableExisted
              THEN CreatesOf(Quote(MigratedTable)) = 0 /\ Alters = Cardinality(MissingColumns)
              ELSE CreatesOf(Quote(MigratedTable)) = 1 /\ Alters = 0

\* C6 as stated: one CREATE TABLE and no ALTER TABLE for a table that does
\* not exist; k ALTER TABLE ... ADD and no CREATE TABLE for a table that
\* exists and lacks k declared columns.
C6_OneCreateOrOnlyAlters ==
    Migrated
        => IF TableExisted
           THEN Creates = 0 /\ Alters = Cardinality(MissingColumns)
           ELSE Creates = 1 /\ Alters = 0

C6_Witness ==
    /\ Migrated /\ TableExisted
    /\ Cardinality(MissingColumns) = 2 /\ Cardinality(MissingJoinTables) = 1
    /\ Alters = 2 /\ Creates = 1

(***************************************************************************)
(* Claims about association lookup.                                        *)
(***************************************************************************)
Looked == related.owner # ""
\* the candidates as stated: the explicit keys, <RelatedType>Id, <OwnerType>Id
StatedCandidates == related.foreignKeys \o <<related.to \o "Id", related.owner \o "Id">>
NamesField(ty, key) ==
    \E i \in 1..Len(structs[ModelStructs[ty]].StructFields) :
        structs[ModelStructs[ty]].StructFields[i].DBName = ToDBName(key)
OnOwner == \E i \in 1..Len(StatedCandidates) : NamesField(related.owner, StatedCandidates[i])
OnRelated == \E i \in 1..Len(StatedCandidates) : NamesField(related.to, StatedCandidates[i])

\* C10: over the candidates (the explicit keys, <RelatedType>Id, <OwnerType>Id),
\* related() issues at most one query; it builds the query from the owner's
\* side if any candidate names a field of the owner, from a field of the
\* related side only if none does, and if no candidate names a field on
\* either side it issues no query and records "invalid association".
C10_OwnerSidePreferred ==
    Looked
        => /\ Len(related.queries) <= 1
           /\ OnOwner => /\ Len(related.queries) = 1 /\ related.err = ""
                         /\ related.queries[1].side = "owner"
           /\ (~OnOwner /\ OnRelated)
                 => /\ Len(related.queries) = 1 /\ related.err = ""
                    /\ related.queries[1].side = "related"
           /\ (~OnOwner /\ ~OnRelated)
                 => /\ related.queries = <<>>
                    /\ related.err = "invalid association"

(***************************************************************************)
(* The table name of a type, computed on its own for every short name over *)
(* the letters the rules look at, and the rule list applied again to what  *)
(* it returned.                                                            *)
(***************************************************************************)
MaxName == 3
MaxPlurals == 2
Letters == {"c", "h", "s", "d", "a", "y", "x", "e"}
TypeNames == SeqsUpTo(Letters, MaxName) \ {<<>>}

NamingInit ==
    naming \in {[noNaming EXCEPT !.name = n, !.tableName = o, !.hasDB = d, !.singular = g] :
                   n \in TypeNames, o \in {"", "firms"}, d \in BOOLEAN, g \in BOOLEAN}

\* lines 141-157 for the type
SetTableName ==
    /\ ~naming.named
    /\ naming' = [naming EXCEPT
                     !.named = TRUE,
                     !.table = tableNameOf([chars |-> naming.name, tableName |-> naming.tableName],
                                           naming.hasDB, naming.singular)]
    /\ UNCHANGED <<condVars, cacheVars, otherVars, paging, reflected>>

\* lines 151-155 applied to the name, then to their own result
Pluralize ==
    /\ Len(naming.plurals) < MaxPlurals
    /\ naming' = [naming EXCEPT
                     !.plurals = Append(@, pluralize(IF @ = <<>> THEN naming.name ELSE @[Len(@)], 1))]
    /\ UNCHANGED <<condVars, cacheVars, otherVars, paging, reflected>>

NamingNext == SetTableName \/ Pluralize

\* the rewrite of the first rule whose ending the name has, in the order
\* ch, ss, sh, day, y, x, then an s after a letter that is not an s
FirstRule(n) ==
    IF EndsWith(n, <<"c", "h">>) \/ EndsWith(n, <<"s", "s">>) \/ EndsWith(n, <<"s", "h">>)
    THEN n \o <<"e", "s">>
    ELSE IF EndsWith(n, <<"d", "a", "y">>) THEN n \o <<"s">>
    ELSE IF EndsWith(n, <<"y">>) THEN SubSeq(n, 1, Len(n) - 1) \o <<"i", "e", "s">>
    ELSE IF EndsWith(n, <<"x">>) THEN n \o <<"e", "s">>
    ELSE IF n[Len(n)] # "s" THEN n \o <<"s">>
    ELSE n

\* C11: without a TableName method and with singular-table mode off, the table
\* name is the type's snake_case name rewritten by the first pluralization
\* rule that matches (ch, ss, sh, day, y, x, generic s); the rule list applied
\* to a name it has already pluralized leaves that name unchanged.
C11_FirstMatchingRulePluralizes ==
    /\ (naming.named /\ naming.tableName = "" /\ ~naming.singular)
           => naming.table = StrOf(FirstRule(naming.name))
    /\ Len(naming.plurals) >= 1 => naming.plurals[1] = FirstRule(naming.name)
    /\ Len(naming.plurals) = 2 => naming.plurals[2] = naming.plurals[1]

C11_Witness ==
    /\ naming.named /\ naming.tableName = "" /\ ~naming.singular /\ naming.hasDB
    /\ naming.name = <<"d", "a", "y">> /\ naming.table = "days"
    /\ naming.plurals = << <<"d", "a", "y", "s">>, <<"d", "a", "y", "s">> >>

(***************************************************************************)
(* The pagination texts: topSql, limitSql and offsetSql of a scope whose   *)
(* search holds a limit, an offset, both or neither, on a dialect with or  *)
(* without TOP.                                                            *)
(***************************************************************************)
\* lines 231-240
limitSql(HasTop, search) ==
    IF ~HasTop
    THEN IF search.Limit = "" THEN <<>> ELSE <<" LIMIT ", search.Limit>>
    ELSE <<>>

\* lines 242-251
topSql(HasTop, search) ==
    IF HasTop /\ search.Offset = ""
    THEN IF search.Limit = "" THEN <<>> ELSE <<" TOP(", search.Limit, ")">>
    ELSE <<>>

\* offsetSql on a TOP dialect without the lines 260-262
offsetSqlWithoutFetch(HasTop, search) ==
    IF search.Offset = "" THEN <<>>
    ELSE IF HasTop THEN <<" OFFSET ", search.Offset, " ROW ">>
    ELSE <<" OFFSET ", search.Offset>>

\* lines 253-266
offsetSql(HasTop, search) ==
    IF search.Offset = "" THEN <<>>
    ELSE IF HasTop
    THEN <<" OFFSET ", search.Offset, " ROW ">>
         \o (IF search.Limit # "" THEN <<"FETCH NEXT ", search.Limit, " ROWS ONLY">> ELSE <<>>)
    ELSE <<" OFFSET ", search.Offset>>

\* the values a limit or an offset is set to; "" is unset
Numerals == {"2", "3", "7"}
Limits == {"", "3", "7"}
Offsets == {"", "7", "2"}

PagingInit ==
    paging \in {[noPaging EXCEPT !.HasTop = t, !.Limit = l, !.Offset = o] :
                   t \in BOOLEAN, l \in Limits, o \in Offsets}

TopSql ==
    /\ "topSql" \notin paging.rendered
    /\ paging' = [paging EXCEPT !.rendered = @ \cup {"topSql"},
                                !.topSql = topSql(paging.HasTop, paging)]
    /\ UNCHANGED <<condVars, cacheVars, otherVars, naming, reflected>>

LimitSql ==
    /\ "limitSql" \notin paging.rendered
    /\ paging' = [paging EXCEPT !.rendered = @ \cup {"limitSql"},
                                !.limitSql = limitSql(paging.HasTop, paging)]
    /\ UNCHANGED <<condVars, cacheVars, otherVars, naming, reflected>>

OffsetSql ==
    /\ "offsetSql" \notin paging.rendered
    /\ paging' = [paging EXCEPT !.rendered = @ \cup {"offsetSql"},
                                !.offsetSql = offsetSql(paging.HasTop, paging)]
    /\ UNCHANGED <<condVars, cacheVars, otherVars, naming, reflected>>

PagingNext == TopSql \/ LimitSql \/ OffsetSql

PagingTexts == paging.topSql \o paging.limitSql \o paging.offsetSql
PagingRendered == paging.rendered = {"topSql", "limitSql", "offsetSql"}

\* C12: for every dialect kind, limit and offset, the three texts together hold
\* the limit value once when a limit is set and the offset value once when an
\* offset is set, and no value otherwise (a value that is both the limit and
\* the offset is held once for each); a TOP dialect renders TOP(n) only
\* without an offset and OFFSET m ROW FETCH NEXT n ROWS ONLY with one; a
\* dialect without TOP renders LIMIT n and OFFSET m.
C12_LimitAndOffsetOnce ==
    PagingRendered =>
        /\ \A v \in Numerals :
              Count(PagingTexts, v) = (IF paging.Limit = v THEN 1 ELSE 0)
                                      + (IF paging.Offset = v THEN 1 ELSE 0)
        /\ paging.HasTop =>
              /\ paging.limitSql = <<>>
              /\ paging.topSql = (IF paging.Limit # "" /\ paging.Offset = ""
                                  THEN <<" TOP(", paging.Limit, ")">> ELSE <<>>)
              /\ paging.Offset = "" => paging.offsetSql = <<>>
              /\ (paging.Offset # "" /\ paging.Limit # "")
                    => paging.offsetSql = <<" OFFSET ", paging.Offset, " ROW ",
                                            "FETCH NEXT ", paging.Limit, " ROWS ONLY">>
        /\ ~paging.HasTop =>
              /\ paging.topSql = <<>>
              /\ paging.limitSql = (IF paging.Limit # "" THEN <<" LIMIT ", paging.Limit>>
                                    ELSE <<>>)
              /\ paging.offsetSql = (IF paging.Offset # "" THEN <<" OFFSET ", paging.Offset>>
                                     ELSE <<>>)

C12_Witness ==
    /\ PagingRendered /\ paging.HasTop /\ paging.Limit = "3" /\ paging.Offset = "7"
    /\ PagingTexts = <<" OFFSET ", "7", " ROW ", "FETCH NEXT ", "3", " ROWS ONLY">>

(***************************************************************************)
(* GetModelStruct called for one value after another on one handle, each   *)
(* call run from start to end.                                             *)
(***************************************************************************)
MaxReflects == 2

Reflect(ty, form, hasDB) ==
    /\ reflected.calls < MaxReflects
    /\ \E g \in {GetModelStruct(ty, form, hasDB, singularTable, ModelStructs, structs)} :
          /\ ModelStructs' = g.ModelStructs
          /\ structs' = g.structs
          /\ reflected' = [calls |-> reflected.calls + 1, ty |-> ty, form |-> form,
                           hasDB |-> hasDB, ret |-> g.ret]
    /\ UNCHANGED <<singularTable, pc, call, returned, first, writes, raced, fatal, ncalls,
                   condVars, otherVars, naming, paging>>

ReflectNext == \E ty \in Types, form \in Forms, hasDB \in BOOLEAN : Reflect(ty, form, hasDB)

Returned == structs[reflected.ret]
Flagged(ms) == {i \in 1..Len(ms.StructFields) : ms.StructFields[i].IsPrimaryKey}

\* C14: in every descriptor GetModelStruct returns, PrimaryKeyField is nil
\* exactly when no column of StructFields has IsPrimaryKey set, and otherwise
\* it is an element of StructFields whose IsPrimaryKey is set: for tagged
\* primary keys, for the id fallback and for primary keys of embedded structs.
C14_PrimaryKeyAgreesWithFlags ==
    reflected.calls > 0 =>
        /\ Returned.PrimaryKeyField = 0 <=> Flagged(Returned) = {}
        /\ Returned.PrimaryKeyField # 0 => Returned.PrimaryKeyField \in Flagged(Returned)

(***************************************************************************)
(* Specifications.                                                         *)
(***************************************************************************)
\* a handle, the clauses chained on it, one scope and its rendering
Init == CondInit /\ built = noBuilt /\ CacheIdle /\ OtherIdle /\ SingleIdle
Next == CondNext
Spec == Init /\ [][Next]_vars

\* single calls of the two clause compilers
InitBuild == BuildInit /\ CacheIdle /\ OtherIdle /\ SingleIdle
SpecBuild == InitBuild /\ [][BuildNext]_vars

\* threads calling GetModelStruct on one handle
SpecCache == Init /\ [][CacheNext]_vars

\* migrations on a database found in any state
InitMigrate == CondInit /\ built = noBuilt /\ CacheIdle /\ MigrateInit /\ SingleIdle
SpecMigrate == InitMigrate /\ [][MigrateNext]_vars

\* association lookups
SpecRelated == Init /\ [][RelatedNext]_vars

\* the table namer on one type name
InitNaming ==
    /\ CondInit /\ built = noBuilt /\ CacheIdle /\ OtherIdle
    /\ NamingInit /\ paging = noPaging /\ reflected = noReflection
SpecNaming == InitNaming /\ [][NamingNext]_vars

\* the pagination texts of one scope
InitPaging ==
    /\ CondInit /\ built = noBuilt /\ CacheIdle /\ OtherIdle
    /\ naming = noNaming /\ PagingInit /\ reflected = noReflection
SpecPaging == InitPaging /\ [][PagingNext]_vars

\* sequential GetModelStruct calls
SpecReflect == Init /\ [][ReflectNext]_vars

====
